---- MODULE Spec2Model ----
(***************************************************************************)
(* Model of cookiecutter-pypackage: the generated project's invoke tasks   *)
(* ({{cookiecutter.project_slug}}/tasks.py), the template repository's own *)
(* tasks (tasks.py) and the helpers of tests/test_bake_project.py.         *)
(*                                                                         *)
(* A path is the sequence of its components; a file system is the set of  *)
(* paths present.  A shell command is a record of its program, its option *)
(* words and its path operands, i.e. the command line after the shell has *)
(* split it into words.                                                    *)
(***************************************************************************)
EXTENDS Integers, Sequences, FiniteSets, TLC

\* ---------------------------------------------------------------- bounds
\* invocations of the task runner in one behaviour
MaxRuns == 2
\* largest return code an external tool or pytest.main hands back
MaxReturnCode == 2

\* calls of the test helpers in one behaviour
MaxHelperCalls == 2

ReturnCodes == 0..MaxReturnCode

\* ---------------------------------------------------------------- paths
joinpath(p, name) == Append(p, name)

IsUnder(p, d) == Len(p) >= Len(d) /\ SubSeq(p, 1, Len(d)) = d

Range(s) == {s[i] : i \in 1..Len(s)}

project_slug == "python_boilerplate"

ROOT_DIR == <<"ROOT">>
BIN_DIR == joinpath(ROOT_DIR, "bin")
TEST_DIR == joinpath(ROOT_DIR, "tests")
SOURCE_DIR == joinpath(ROOT_DIR, project_slug)
TOX_DIR == joinpath(ROOT_DIR, ".tox")
COVERAGE_FILE == joinpath(ROOT_DIR, ".coverage")
COVERAGE_DIR == joinpath(ROOT_DIR, "htmlcov")
COVERAGE_REPORT == joinpath(COVERAGE_DIR, "index.html")
DOCS_DIR == joinpath(ROOT_DIR, "docs")
DOCS_SOURCE_DIR == joinpath(DOCS_DIR, "source")
DOCS_BUILD_DIR == joinpath(DOCS_DIR, "_build")
DOCS_INDEX == joinpath(DOCS_BUILD_DIR, "index.html")
PYTHON_DIRS == <<SOURCE_DIR, TEST_DIR>>
\* template repository only
TEST_CACHE_DIR == joinpath(ROOT_DIR, ".pytest_cache")

\* relative operands of the clean_build / clean_python commands; the task
\* runner is started in the project root
BUILD_DIR == joinpath(ROOT_DIR, "build")
DIST_DIR == joinpath(ROOT_DIR, "dist")
EGGS_DIR == joinpath(ROOT_DIR, ".eggs")
PYCACHE_DIR == joinpath(SOURCE_DIR, "__pycache__")

\* ------------------------------------------------------------- commands
Cmd(prog, opts, paths) == [prog |-> prog, opts |-> opts, paths |-> paths]

Rm(path) == Cmd("rm", <<"-fr">>, <<path>>)

\* find . -name <pattern> -exec rm <flag> {} +
FindRm(pattern, flag) ==
    Cmd("find", <<"-name", pattern, "-exec", "rm", flag, "{}", "+">>, <<ROOT_DIR>>)

\* the file names of the model's universe that a -name pattern matches
Glob(pattern) ==
    CASE pattern = "__pycache__" -> {"__pycache__"}
      [] pattern = "*.egg-info" -> {"python_boilerplate.egg-info"}
      [] pattern = "*.egg" -> {"python_boilerplate.egg"}
      [] pattern = "*.pyc" -> {"module.pyc"}
      [] pattern = "*.pyo" -> {"module.pyo"}
      [] pattern = "*~" -> {"tasks.py~"}
      [] OTHER -> {}

\* paths of `files` the command asks to remove, with all below them
Victims(command, files) ==
    IF command.prog = "rm"
    THEN {p \in files : \E t \in Range(command.paths) : IsUnder(p, t)}
    ELSE IF command.prog = "find"
    THEN LET hits == {p \in files : /\ IsUnder(p, command.paths[1])
                                    /\ p[Len(p)] \in Glob(command.opts[2])}
         IN  {p \in files : \E t \in hits : IsUnder(p, t)}
    ELSE {}

\* What the child process does: rm -f and find -exec rm -f exit 0 when there
\* is nothing to remove and non-zero only when something present cannot be
\* removed; every other tool's return code is the tool's own (tool_rc).
Process(command, tool_rc, files, lock) ==
    IF command.prog \in {"rm", "find"}
    THEN LET v == Victims(command, files)
         IN  IF v \cap lock # {}
             THEN [rc |-> 1, fs |-> files \ (v \ lock)]
             ELSE [rc |-> 0, fs |-> files \ v]
    ELSE [rc |-> tool_rc, fs |-> files]

\* variant of run_all: c.run(command, warn=True), which returns the failed
\* result instead of raising
RECURSIVE run_all_warn(_, _, _, _)
run_all_warn(commands, rcs, files, lock) ==
    IF commands = <<>>
    THEN [issued |-> <<>>, fs |-> files, rc |-> 0]
    ELSE LET r == Process(Head(commands), Head(rcs), files, lock)
             e == [command |-> Head(commands), rc |-> r.rc]
             rest == run_all_warn(Tail(commands), Tail(rcs), r.fs, lock)
         IN  [issued |-> <<e>> \o rest.issued, fs |-> rest.fs, rc |-> rest.rc]

\* _run: c.run raises UnexpectedExit on a non-zero return code, so the
\* statements after it are not executed.  run_all is the sequential
\* composition of a task body's _run statements.
RECURSIVE run_all(_, _, _, _)
run_all(commands, rcs, files, lock) ==
    IF commands = <<>>
    THEN [issued |-> <<>>, fs |-> files, rc |-> 0]
    ELSE LET r == Process(Head(commands), Head(rcs), files, lock)
             e == [command |-> Head(commands), rc |-> r.rc]
         IN  IF r.rc # 0
             THEN [issued |-> <<e>>, fs |-> r.fs, rc |-> r.rc]
             ELSE LET rest == run_all(Tail(commands), Tail(rcs), r.fs, lock)
                  IN  [issued |-> <<e>> \o rest.issued, fs |-> rest.fs, rc |-> rest.rc]

\* ---------------------------------------------------- direct file removal
\* shutil.rmtree(path, ignore_errors=True): never raises; removes the tree
\* unless something in it cannot be removed (what can be removed is).
rmtree(path, files, lock) == files \ ({p \in files : IsUnder(p, path)} \ lock)

\* variant of _delete_file: the fallback unlink() without its
\* except FileNotFoundError
_delete_file_unguarded(file, files, lock, has_missing_ok) ==
    IF has_missing_ok
    THEN IF file \notin files THEN [raised |-> FALSE, fs |-> files]
         ELSE IF file \in lock THEN [raised |-> TRUE, fs |-> files]
         ELSE [raised |-> FALSE, fs |-> files \ {file}]
    ELSE IF file \notin files THEN [raised |-> TRUE, fs |-> files]
         ELSE IF file \in lock THEN [raised |-> TRUE, fs |-> files]
         ELSE [raised |-> FALSE, fs |-> files \ {file}]

\* Path.unlink(missing_ok=True) knows its keyword from Python 3.8 on; before
\* that the call raises TypeError and the handler calls unlink() and swallows
\* FileNotFoundError.  Either way an absent file is no error; a file that is
\* present and cannot be removed raises (PermissionError) out of the task.
_delete_file(file, files, lock, has_missing_ok) ==
    IF has_missing_ok
    THEN \* file.unlink(missing_ok=True)
         IF file \notin files THEN [raised |-> FALSE, fs |-> files]
         ELSE IF file \in lock THEN [raised |-> TRUE, fs |-> files]
         ELSE [raised |-> FALSE, fs |-> files \ {file}]
    ELSE \* TypeError, then file.unlink() inside try/except FileNotFoundError
         IF file \notin files THEN [raised |-> FALSE, fs |-> files]
         ELSE IF file \in lock THEN [raised |-> TRUE, fs |-> files]
         ELSE [raised |-> FALSE, fs |-> files \ {file}]

\* ------------------------------------------- task bodies: their commands
black_options(check) == IF check THEN <<"--check">> ELSE <<>>
\* variant of isort_options: the check flag not passed on to isort
isort_options_unchecked(check) == <<>>
isort_options(check) == IF check THEN <<"--check-only", "--diff">> ELSE <<>>

format_commands(check) ==
    << Cmd("black", black_options(check), PYTHON_DIRS),
       Cmd("isort", isort_options(check), PYTHON_DIRS) >>

lint_flake8_commands == << Cmd("flake8", <<>>, PYTHON_DIRS) >>
lint_pylint_commands == << Cmd("pylint", <<>>, PYTHON_DIRS) >>
lint_mypy_commands == << Cmd("mypy", <<>>, PYTHON_DIRS) >>

clean_docs_commands == << Rm(DOCS_BUILD_DIR), Rm(DOCS_SOURCE_DIR) >>

docs_commands ==
    << Cmd("sphinx-apidoc", <<"-e", "-P", "-o">>, <<DOCS_SOURCE_DIR, SOURCE_DIR>>),
       Cmd("sphinx-build", <<"-b", "html">>, <<DOCS_DIR, DOCS_BUILD_DIR>>) >>

clean_build_commands ==
    << Rm(BUILD_DIR), Rm(DIST_DIR), Rm(EGGS_DIR),
       FindRm("*.egg-info", "-fr"), FindRm("*.egg", "-f") >>

clean_python_commands ==
    << FindRm("*.pyc", "-f"), FindRm("*.pyo", "-f"), FindRm("*~", "-f"),
       FindRm("__pycache__", "-fr") >>

dist_commands == << Cmd("poetry", <<"build">>, <<>>) >>
release_commands == << Cmd("poetry", <<"publish">>, <<>>) >>

\* ---------------------------------------------------- the test task's args
\* coverage=None, coverage=True (a bare --coverage) or a string
NoCoverage == [kind |-> "None", value |-> ""]
BareCoverage == [kind |-> "bool", value |-> "True"]
StrCoverage(s) == [kind |-> "str", value |-> s]
CoverageValues ==
    {NoCoverage, BareCoverage, StrCoverage("html"), StrCoverage("xml"), StrCoverage("term")}

\* an f-string "<prefix><path>" is the pair of its literal prefix and the path;
\* a plain word is a prefix with the empty path
Arg(prefix, path) == [text |-> prefix, path |-> path]
Word(w) == Arg(w, <<>>)

\* variant of pytest_args: a plain else in place of `elif coverage == "xml"`
pytest_args_else_xml(coverage, junit) ==
    <<Word("-n"), Word("auto")>>
    \o (IF junit THEN <<Arg("--junitxml=", joinpath(BIN_DIR, "report.xml"))>> ELSE <<>>)
    \o (IF coverage # NoCoverage THEN <<Arg("--cov=", SOURCE_DIR)>> ELSE <<>>)
    \o (IF coverage = StrCoverage("html") THEN <<Word("--cov-report=html")>>
        ELSE <<Arg("--cov-report=xml:", joinpath(BIN_DIR, "coverage.xml"))>>)
    \o <<Arg("", TEST_DIR)>>

pytest_args(coverage, junit) ==
    <<Word("-n"), Word("auto")>>
    \o (IF junit THEN <<Arg("--junitxml=", joinpath(BIN_DIR, "report.xml"))>> ELSE <<>>)
    \o (IF coverage # NoCoverage THEN <<Arg("--cov=", SOURCE_DIR)>> ELSE <<>>)
    \o (IF coverage = StrCoverage("html") THEN <<Word("--cov-report=html")>>
        ELSE IF coverage = StrCoverage("xml")
        THEN <<Arg("--cov-report=xml:", joinpath(BIN_DIR, "coverage.xml"))>>
        ELSE <<>>)
    \o <<Arg("", TEST_DIR)>>

\* if coverage == "html": webbrowser.open(COVERAGE_REPORT.as_uri())
test_opens(coverage) ==
    IF coverage = StrCoverage("html") THEN <<COVERAGE_REPORT>> ELSE <<>>

\* variant of test_exit: Exit raised without code=return_code
test_exit_default_code(return_code) ==
    IF return_code # 0
    THEN [exception |-> "Exit", code |-> 1]
    ELSE [exception |-> "none", code |-> 0]

\* if return_code: raise exceptions.Exit("Tests failed", code=return_code)
test_exit(return_code) ==
    IF return_code # 0
    THEN [exception |-> "Exit", code |-> return_code]
    ELSE [exception |-> "none", code |-> 0]

\* ------------------------------------------------------- task declarations
\* The rendered @task decorators: Jinja keeps a block exactly when its
\* variable equals 'y'.
\* variant of lint_pre: lint_pylint referenced outside its {% if %}
lint_pre_unconditional(cc) ==
    <<"lint_flake8", "lint_pylint">>
    \o (IF cc.use_mypy = "y" THEN <<"lint_mypy">> ELSE <<>>)
lint_pre(cc) ==
    <<"lint_flake8">>
    \o (IF cc.use_pylint = "y" THEN <<"lint_pylint">> ELSE <<>>)
    \o (IF cc.use_mypy = "y" THEN <<"lint_mypy">> ELSE <<>>)
docs_pre == <<"clean_docs">>
\* variant of clean_pre: two sub-tasks declared the other way round
clean_pre_swapped == <<"clean_build", "clean_tests", "clean_python", "clean_docs">>
clean_pre == <<"clean_build", "clean_python", "clean_tests", "clean_docs">>
dist_pre == <<"clean">>
release_pre == <<"clean", "dist">>
template_clean_pre == <<"template_clean_docs", "template_clean_tests", "template_clean_tox">>

\* the tasks the rendered tasks.py defines
Defined(cc) ==
    {"format", "lint_flake8", "lint", "test", "clean_docs", "docs", "clean_build",
     "clean_python", "clean_tests", "clean", "dist", "release"}
    \cup (IF cc.use_pylint = "y" THEN {"lint_pylint"} ELSE {})
    \cup (IF cc.use_mypy = "y" THEN {"lint_mypy"} ELSE {})

Pre(cc, t) ==
    CASE t = "lint" -> lint_pre(cc)
      [] t = "docs" -> docs_pre
      [] t = "clean" -> clean_pre
      [] t = "dist" -> dist_pre
      [] t = "release" -> release_pre
      [] t = "template_clean" -> template_clean_pre
      [] OTHER -> <<>>

\* invoke's Executor: a call is preceded by the expansion of its pre-tasks,
\* then (by default) every task is kept at its first occurrence only.
RECURSIVE expand_calls(_, _)
expand_calls(cc, ts) ==
    IF ts = <<>> THEN <<>>
    ELSE expand_calls(cc, Pre(cc, Head(ts))) \o <<Head(ts)>> \o expand_calls(cc, Tail(ts))

RECURSIVE dedupe(_)
dedupe(ts) ==
    IF ts = <<>> THEN <<>>
    ELSE LET init == dedupe(SubSeq(ts, 1, Len(ts) - 1))
             last == ts[Len(ts)]
         IN  IF last \in Range(init) THEN init ELSE Append(init, last)

\* ------------------------------------------------------------------ state
VARIABLES
    tasks_file,     \* which tasks.py is in use: "project" (generated) or "template"
    cookiecutter,   \* the variables the project's tasks.py was rendered with
    fs,             \* paths present in the working tree
    locked,         \* paths that cannot be removed (no permission)
    has_missing_ok, \* Python >= 3.8: Path.unlink accepts missing_ok
    runs,           \* invocations of the task runner so far
    invoked,        \* the task named on the command line
    kwargs,         \* its arguments
    calls,          \* task calls not yet completed, in execution order
    ran,            \* tasks whose body has completed, in order
    issued,         \* commands issued through _run, with task and return code
    pytest_main,    \* calls of pytest.main: arguments and return code
    opened,         \* what webbrowser.open was given
    status,         \* "idle", "running", "done", or the exception that ended the run
    exit_code,      \* the code the run ended with
    fs_before,      \* fs when the current run started
    cwd,            \* test helpers: the process's working directory
    outer_cwd,      \* test helpers: the working directory before the helper call
    helper,         \* test helpers: the call in progress
    executed,       \* test helpers: commands run, each with the cwd it ran in
    raised,         \* test helpers: the exception a helper call ended with
    extra_context,  \* bake: the variable overrides
    result          \* bake: the baked project

taskVars == <<tasks_file, cookiecutter, fs, locked, has_missing_ok, runs, invoked, kwargs,
              calls, ran, issued, pytest_main, opened, status, exit_code, fs_before>>
helperVars == <<cwd, outer_cwd, helper, executed, raised>>
bakeVars == <<extra_context, result>>
vars == <<taskVars, helperVars, bakeVars>>

\* "Y" stands for any value other than the two the prompt offers
UseChoices == {"y", "n", "Y"}

DefaultKwargs == [check |-> FALSE, coverage |-> NoCoverage, junit |-> FALSE, launch |-> TRUE]

\* the clean targets of the generated project and of the template repository
ProjectTargets ==
    {DOCS_BUILD_DIR, DOCS_SOURCE_DIR, TOX_DIR, BIN_DIR, COVERAGE_DIR, COVERAGE_FILE,
     DIST_DIR, PYCACHE_DIR}
TemplateTargets == {DOCS_BUILD_DIR, TEST_CACHE_DIR, TOX_DIR}

Idle ==
    /\ runs = 0
    /\ invoked = "" /\ kwargs = DefaultKwargs
    /\ calls = <<>> /\ ran = <<>> /\ issued = <<>> /\ pytest_main = <<>> /\ opened = <<>>
    /\ status = "idle" /\ exit_code = 0
    /\ fs_before = fs

HelpersIdle ==
    /\ cwd = <<"HOME">> /\ outer_cwd = <<"HOME">>
    /\ helper = [name |-> "", commands |-> <<>>, path |-> <<>>, calls |-> 0]
    /\ executed = <<>> /\ raised = "none"

BakeIdle ==
    /\ extra_context = [open_source_license |-> "MIT", create_author_file |-> "y",
                        full_name |-> "Audrey Roy Greenfeld", use_pylint |-> "y",
                        use_mypy |-> "y"]
    /\ result = [baked |-> FALSE]

\* ------------------------------------------------- the task runner's steps
\* `invoke <task> [options]`: the executor expands and orders the calls
Start(task, args, dd) ==
    /\ status # "running"
    /\ runs < MaxRuns
    /\ runs' = runs + 1
    /\ invoked' = task
    /\ kwargs' = args
    /\ calls' = (IF dd THEN dedupe(expand_calls(cookiecutter, <<task>>))
                 ELSE expand_calls(cookiecutter, <<task>>))
    /\ ran' = <<>> /\ issued' = <<>> /\ pytest_main' = <<>> /\ opened' = <<>>
    /\ status' = "running"
    /\ exit_code' = 0
    /\ fs_before' = fs
    /\ UNCHANGED <<tasks_file, cookiecutter, fs, locked, has_missing_ok>>
    /\ UNCHANGED <<helperVars, bakeVars>>

Current(file, task) ==
    /\ status = "running"
    /\ tasks_file = file
    /\ calls # <<>>
    /\ Head(calls) = task

\* the task returned: the executor goes on to the next call
Completed(task) ==
    /\ ran' = Append(ran, task)
    /\ calls' = Tail(calls)
    /\ status' = IF Tail(calls) = <<>> THEN "done" ELSE "running"
    /\ exit_code' = 0

\* the task raised: the run ends there, nothing else is called
Raised(exception, code) ==
    /\ ran' = ran
    /\ calls' = calls
    /\ status' = exception
    /\ exit_code' = code

Frame ==
    UNCHANGED <<tasks_file, cookiecutter, locked, has_missing_ok, runs, invoked, kwargs,
                fs_before, helperVars, bakeVars>>

Tag(task, entries) ==
    [i \in 1..Len(entries) |->
        [task |-> task, command |-> entries[i].command, rc |-> entries[i].rc]]

\* a task body made of _run statements only
Shell(task, commands, rcs) ==
    LET r == run_all(commands, rcs, fs, locked)
    IN  /\ issued' = issued \o Tag(task, r.issued)
        /\ fs' = r.fs
        /\ IF r.rc = 0 THEN Completed(task) ELSE Raised("UnexpectedExit", r.rc)
        /\ UNCHANGED <<pytest_main, opened>>
        /\ Frame

Rcs(n) == [1..n -> ReturnCodes]

format ==
    /\ Current("project", "format")
    /\ \E rcs \in Rcs(2) : Shell("format", format_commands(kwargs.check), rcs)

lint_flake8 ==
    /\ Current("project", "lint_flake8")
    /\ \E rcs \in Rcs(1) : Shell("lint_flake8", lint_flake8_commands, rcs)

lint_pylint ==
    /\ Current("project", "lint_pylint")
    /\ "lint_pylint" \in Defined(cookiecutter)
    /\ \E rcs \in Rcs(1) : Shell("lint_pylint", lint_pylint_commands, rcs)

lint_mypy ==
    /\ Current("project", "lint_mypy")
    /\ "lint_mypy" \in Defined(cookiecutter)
    /\ \E rcs \in Rcs(1) : Shell("lint_mypy", lint_mypy_commands, rcs)

lint ==
    /\ Current("project", "lint")
    /\ Shell("lint", <<>>, <<>>)

test ==
    /\ Current("project", "test")
    /\ \E return_code \in ReturnCodes :
        /\ pytest_main' = Append(pytest_main,
                                 [args |-> pytest_args(kwargs.coverage, kwargs.junit),
                                  return_code |-> return_code])
        /\ opened' = opened \o test_opens(kwargs.coverage)
        /\ LET e == test_exit(return_code)
           IN  IF e.exception # "none" THEN Raised(e.exception, e.code) ELSE Completed("test")
    /\ UNCHANGED <<issued, fs>>
    /\ Frame

clean_docs ==
    /\ Current("project", "clean_docs")
    /\ Shell("clean_docs", clean_docs_commands, <<0, 0>>)

docs ==
    /\ Current("project", "docs")
    /\ \E rcs \in Rcs(2) :
        LET r == run_all(docs_commands, rcs, fs, locked)
        IN  /\ issued' = issued \o Tag("docs", r.issued)
            /\ fs' = r.fs
            /\ IF r.rc = 0
               THEN /\ opened' = (IF kwargs.launch THEN Append(opened, DOCS_INDEX) ELSE opened)
                    /\ Completed("docs")
               ELSE /\ opened' = opened
                    /\ Raised("UnexpectedExit", r.rc)
    /\ UNCHANGED pytest_main
    /\ Frame

clean_build ==
    /\ Current("project", "clean_build")
    /\ Shell("clean_build", clean_build_commands, <<0, 0, 0, 0, 0>>)

clean_python ==
    /\ Current("project", "clean_python")
    /\ Shell("clean_python", clean_python_commands, <<0, 0, 0, 0>>)

clean_tests ==
    /\ Current("project", "clean_tests")
    /\ LET d == _delete_file(COVERAGE_FILE, fs, locked, has_missing_ok)
       IN  IF d.raised
           THEN /\ fs' = d.fs
                /\ Raised("PermissionError", 1)
           ELSE /\ fs' = rmtree(COVERAGE_DIR, rmtree(BIN_DIR, rmtree(TOX_DIR, d.fs, locked),
                                                     locked), locked)
                /\ Completed("clean_tests")
    /\ UNCHANGED <<issued, pytest_main, opened>>
    /\ Frame

clean ==
    /\ Current("project", "clean")
    /\ Shell("clean", <<>>, <<>>)

dist ==
    /\ Current("project", "dist")
    /\ \E rcs \in Rcs(1) : Shell("dist", dist_commands, rcs)

release ==
    /\ Current("project", "release")
    /\ \E rcs \in Rcs(1) : Shell("release", release_commands, rcs)

\* the template repository's tasks.py
Removal(task, files) ==
    /\ fs' = files
    /\ Completed(task)
    /\ UNCHANGED <<issued, pytest_main, opened>>
    /\ Frame

template_clean_docs ==
    /\ Current("template", "template_clean_docs")
    /\ Removal("template_clean_docs", rmtree(DOCS_BUILD_DIR, fs, locked))

template_clean_tests ==
    /\ Current("template", "template_clean_tests")
    /\ Removal("template_clean_tests", rmtree(TEST_CACHE_DIR, fs, locked))

template_clean_tox ==
    /\ Current("template", "template_clean_tox")
    /\ Removal("template_clean_tox", rmtree(TOX_DIR, fs, locked))

template_clean ==
    /\ Current("template", "template_clean")
    /\ Removal("template_clean", fs)

\* ------------------------------------------------ the project's task runner
KwargsOf(task) ==
    CASE task = "format" -> {[DefaultKwargs EXCEPT !.check = c] : c \in BOOLEAN}
      [] task = "test" -> {[DefaultKwargs EXCEPT !.coverage = c, !.junit = j] :
                              c \in CoverageValues, j \in BOOLEAN}
      [] task = "docs" -> {[DefaultKwargs EXCEPT !.launch = l] : l \in BOOLEAN}
      [] OTHER -> {DefaultKwargs}

Invoke ==
    /\ tasks_file = "project"
    /\ \E task \in Defined(cookiecutter), dd \in BOOLEAN :
          \E args \in KwargsOf(task) : Start(task, args, dd)

Init ==
    /\ tasks_file = "project"
    /\ cookiecutter \in [use_pylint : UseChoices, use_mypy : UseChoices]
    /\ fs \in {{}, ProjectTargets}
    /\ locked \in {{}, {DIST_DIR}, {PYCACHE_DIR}, {DOCS_SOURCE_DIR}, {COVERAGE_FILE}}
    /\ has_missing_ok \in BOOLEAN
    /\ Idle /\ HelpersIdle /\ BakeIdle

Next ==
    \/ Invoke
    \/ format \/ lint_flake8 \/ lint_pylint \/ lint_mypy \/ lint
    \/ test
    \/ clean_docs \/ docs
    \/ clean_build \/ clean_python \/ clean_tests \/ clean
    \/ dist \/ release

Spec == Init /\ [][Next]_vars

\* ------------------------------------------------------ cleaning, both files
InvokeClean ==
    \E dd \in BOOLEAN :
        Start(IF tasks_file = "project" THEN "clean" ELSE "template_clean", DefaultKwargs, dd)

InitClean ==
    /\ tasks_file \in {"project", "template"}
    /\ cookiecutter = [use_pylint |-> "y", use_mypy |-> "y"]
    /\ fs \in SUBSET (IF tasks_file = "project" THEN ProjectTargets ELSE TemplateTargets)
    /\ \/ locked = {}
       \/ \E p \in (IF tasks_file = "project" THEN ProjectTargets ELSE TemplateTargets) :
             locked = {p}
    /\ has_missing_ok \in BOOLEAN
    /\ Idle /\ HelpersIdle /\ BakeIdle

NextClean ==
    \/ InvokeClean
    \/ clean_build \/ clean_python \/ clean_tests \/ clean_docs \/ clean
    \/ template_clean_docs \/ template_clean_tests \/ template_clean_tox \/ template_clean

SpecClean == InitClean /\ [][NextClean]_vars

\* ------------------------------------------ tests/test_bake_project.py helpers
_INSTALL_DEPS_COMMANDS == <<"poetry install">>

\* cmds = _INSTALL_DEPS_COMMANDS.copy(); cmds.extend(commands)
build_commands(commands) == _INSTALL_DEPS_COMMANDS \o commands

\* the commands test_bake_and_run_and_invoke is parametrized with
InvokeCommands ==
    {"poetry run invoke format --check", "poetry run invoke lint",
     "poetry run invoke docs --no-launch"}

\* shlex.split on the commands above: the words between the blanks
shlex_split(command) ==
    CASE command = "poetry install" -> <<"poetry", "install">>
      [] command = "poetry run invoke format --check" ->
            <<"poetry", "run", "invoke", "format", "--check">>
      [] command = "poetry run invoke lint" -> <<"poetry", "run", "invoke", "lint">>
      [] command = "poetry run invoke docs --no-launch" ->
            <<"poetry", "run", "invoke", "docs", "--no-launch">>

\* directories that exist; os.chdir to any other path raises FileNotFoundError
HOME_DIR == <<"HOME">>
PROJECT_PATH == <<"tmp", "bake00", "python_boilerplate">>
MISSING_PATH == <<"tmp", "missing">>
Directories == {HOME_DIR, PROJECT_PATH}

\* the for loop of run_inside_dir, run with working directory dir:
\* subprocess.check_call raises CalledProcessError on a non-zero return
\* code and the except clause re-raises it, which leaves the loop
RECURSIVE check_calls(_, _, _)
check_calls(commands, rcs, dir) ==
    IF commands = <<>>
    THEN [executed |-> <<>>, raised |-> "none"]
    ELSE LET e == [argv |-> shlex_split(Head(commands)), cwd |-> dir, rc |-> Head(rcs)]
         IN  IF Head(rcs) # 0
             THEN [executed |-> <<e>>, raised |-> "CalledProcessError"]
             ELSE LET rest == check_calls(Tail(commands), Tail(rcs), dir)
                  IN  [executed |-> <<e>> \o rest.executed, raised |-> rest.raised]

\* variant of change_working_directory: os.chdir(prev_cwd) after the yield
\* without try/finally, so an exception in the body skips it
change_working_directory_no_finally(path, current, commands, rcs) ==
    LET prev_cwd == current
    IN  IF path \notin Directories
        THEN [cwd |-> current, executed |-> <<>>, raised |-> "FileNotFoundError"]
        ELSE LET body == check_calls(commands, rcs, path)
             IN  [cwd |-> IF body.raised = "none" THEN prev_cwd ELSE path,
                  executed |-> body.executed, raised |-> body.raised]

\* with change_working_directory(path): <body>
\*   prev_cwd = Path.cwd(); os.chdir(path); try: yield; finally: os.chdir(prev_cwd)
\* os.chdir(path) is outside the try: when it raises, nothing was changed.
change_working_directory(path, current, commands, rcs) ==
    LET prev_cwd == current
    IN  IF path \notin Directories
        THEN [cwd |-> current, executed |-> <<>>, raised |-> "FileNotFoundError"]
        ELSE LET body == check_calls(commands, rcs, path)
             IN  [cwd |-> prev_cwd, executed |-> body.executed, raised |-> body.raised]

HelperCall(name, commands, path, rcs) ==
    LET r == change_working_directory(path, cwd, commands, rcs)
    IN  /\ helper.calls < MaxHelperCalls
        /\ helper' = [name |-> name, commands |-> commands, path |-> path,
                      calls |-> helper.calls + 1]
        /\ outer_cwd' = cwd
        /\ cwd' = r.cwd
        /\ executed' = r.executed
        /\ raised' = r.raised
        /\ UNCHANGED <<taskVars, bakeVars>>

run_inside_dir ==
    \E commands \in {<<>>} \cup {build_commands(<<c>>) : c \in InvokeCommands},
       path \in Directories \cup {MISSING_PATH} :
        \E rcs \in [1..Len(commands) -> ReturnCodes] :
            HelperCall("run_inside_dir", commands, path, rcs)

check_output_inside_dir ==
    \E command \in InvokeCommands, path \in Directories \cup {MISSING_PATH} :
        \E rcs \in [1..1 -> ReturnCodes] :
            HelperCall("check_output_inside_dir", <<command>>, path, rcs)

InitHelpers ==
    /\ tasks_file = "project"
    /\ cookiecutter = [use_pylint |-> "y", use_mypy |-> "y"]
    /\ fs = {} /\ locked = {} /\ has_missing_ok = TRUE
    /\ Idle /\ BakeIdle
    /\ cwd \in Directories /\ outer_cwd = cwd
    /\ helper = [name |-> "", commands |-> <<>>, path |-> <<>>, calls |-> 0]
    /\ executed = <<>> /\ raised = "none"

NextHelpers == run_inside_dir \/ check_output_inside_dir

SpecHelpers == InitHelpers /\ [][NextHelpers]_vars

\* ------------------------------------------------------------------- baking
\* str: a Python string as the sequence of its characters
Chars(s) ==
    CASE s = "MIT" ->
            <<"M", "I", "T">>
      [] s = "BSD-3-Clause" ->
            <<"B", "S", "D", "-", "3", "-", "C", "l", "a", "u", "s", "e">>
      [] s = "ISC" ->
            <<"I", "S", "C">>
      [] s = "Apache-2.0" ->
            <<"A", "p", "a", "c", "h", "e", "-", "2", ".", "0">>
      [] s = "GPL-3.0-only" ->
            <<"G", "P", "L", "-", "3", ".", "0", "-", "o", "n", "l", "y">>
      [] s = "MIT " ->
            <<"M", "I", "T", " ">>
      [] s = "Redistributions of source code must retain the above copyright notice, this" ->
            <<"R", "e", "d", "i", "s", "t", "r", "i", "b", "u", "t", "i", "o", "n", "s", " ",
              "o", "f", " ", "s", "o", "u", "r", "c", "e", " ", "c", "o", "d", "e", " ", "m",
              "u", "s", "t", " ", "r", "e", "t", "a", "i", "n", " ", "t", "h", "e", " ", "a",
              "b", "o", "v", "e", " ", "c", "o", "p", "y", "r", "i", "g", "h", "t", " ", "n",
              "o", "t", "i", "c", "e", ",", " ", "t", "h", "i", "s">>
      [] s = "ISC License" ->
            <<"I", "S", "C", " ", "L", "i", "c", "e", "n", "s", "e">>
      [] s = "Licensed under the Apache License, Version 2.0" ->
            <<"L", "i", "c", "e", "n", "s", "e", "d", " ", "u", "n", "d", "e", "r", " ", "t",
              "h", "e", " ", "A", "p", "a", "c", "h", "e", " ", "L", "i", "c", "e", "n", "s",
              "e", ",", " ", "V", "e", "r", "s", "i", "o", "n", " ", "2", ".", "0">>
      [] s = "GNU GENERAL PUBLIC LICENSE" ->
            <<"G", "N", "U", " ", "G", "E", "N", "E", "R", "A", "L", " ", "P", "U", "B", "L",
              "I", "C", " ", "L", "I", "C", "E", "N", "S", "E">>
      [] s = "License" ->
            <<"L", "i", "c", "e", "n", "s", "e">>
      [] s = "license" ->
            <<"l", "i", "c", "e", "n", "s", "e">>

\* Python's `sub in text` on strings
In(sub, text) ==
    \E i \in 1..(Len(text) - Len(sub) + 1) : SubSeq(text, i, i + Len(sub) - 1) = sub

\* variant of _DEPENDENCY_FILE: the manifest name of a setuptools project
_DEPENDENCY_FILE_setup == "setup.py"
_DEPENDENCY_FILE == "pyproject.toml"

\* variant of license_info: one fingerprint in the wrong case
license_info_wrong_case ==
    { <<"MIT", "MIT ">>,
      <<"BSD-3-Clause",
        "Redistributions of source code must retain the above copyright notice, this">>,
      <<"ISC", "ISC License">>,
      <<"Apache-2.0", "Licensed under the Apache License, Version 2.0">>,
      <<"GPL-3.0-only", "license">> }

\* the parametrization of test_bake_selecting_license: (license_str, target_string)
license_info ==
    { <<"MIT", "MIT ">>,
      <<"BSD-3-Clause",
        "Redistributions of source code must retain the above copyright notice, this">>,
      <<"ISC", "ISC License">>,
      <<"Apache-2.0", "Licensed under the Apache License, Version 2.0">>,
      <<"GPL-3.0-only", "GNU GENERAL PUBLIC LICENSE">> }

\* the template tree (LICENSE, pyproject.toml, README.rst) and the renderer,
\* as the specification describes them: excerpts of the rendered texts
LICENSE_MIT ==
    <<"M", "I", "T", " ", "L", "i", "c", "e", "n", "s", "e", " ", "C", "o", "p", "y",
      "r", "i", "g", "h", "t", " ", "(", "c", ")">>
LICENSE_BSD ==
    <<"B", "S", "D", " ", "L", "i", "c", "e", "n", "s", "e", " ", "R", "e", "d", "i",
      "s", "t", "r", "i", "b", "u", "t", "i", "o", "n", "s", " ", "o", "f", " ", "s",
      "o", "u", "r", "c", "e", " ", "c", "o", "d", "e", " ", "m", "u", "s", "t", " ",
      "r", "e", "t", "a", "i", "n", " ", "t", "h", "e", " ", "a", "b", "o", "v", "e",
      " ", "c", "o", "p", "y", "r", "i", "g", "h", "t", " ", "n", "o", "t", "i", "c",
      "e", ",", " ", "t", "h", "i", "s", " ", "l", "i", "s", "t", " ", "o", "f", " ",
      "c", "o", "n", "d", "i", "t", "i", "o", "n", "s">>
LICENSE_ISC ==
    <<"I", "S", "C", " ", "L", "i", "c", "e", "n", "s", "e", " ", "C", "o", "p", "y",
      "r", "i", "g", "h", "t", " ", "(", "c", ")">>
LICENSE_APACHE ==
    <<"A", "p", "a", "c", "h", "e", " ", "S", "o", "f", "t", "w", "a", "r", "e", " ",
      "L", "i", "c", "e", "n", "s", "e", " ", "2", ".", "0", " ", "L", "i", "c", "e",
      "n", "s", "e", "d", " ", "u", "n", "d", "e", "r", " ", "t", "h", "e", " ", "A",
      "p", "a", "c", "h", "e", " ", "L", "i", "c", "e", "n", "s", "e", ",", " ", "V",
      "e", "r", "s", "i", "o", "n", " ", "2", ".", "0">>
LICENSE_GPL ==
    <<"G", "N", "U", " ", "G", "E", "N", "E", "R", "A", "L", " ", "P", "U", "B", "L",
      "I", "C", " ", "L", "I", "C", "E", "N", "S", "E", " ", "V", "e", "r", "s", "i",
      "o", "n", " ", "3", ",", " ", "2", "9", " ", "J", "u", "n", "e", " ", "2", "0",
      "0", "7">>
PYPROJECT_HEAD ==
    <<"[", "t", "o", "o", "l", ".", "p", "o", "e", "t", "r", "y", "]", " ", "n", "a",
      "m", "e", " ", "=", " ", "p", "y", "t", "h", "o", "n", "_", "b", "o", "i", "l",
      "e", "r", "p", "l", "a", "t", "e", " ">>
PYPROJECT_LICENSE_KEY ==
    <<"l", "i", "c", "e", "n", "s", "e", " ", "=", " ">>
PYPROJECT_TAIL ==
    <<" ", "[", "t", "o", "o", "l", ".", "b", "l", "a", "c", "k", "]", " ", "l", "i",
      "n", "e", "-", "l", "e", "n", "g", "t", "h", " ", "=", " ", "1", "2", "0">>
README_HEAD ==
    <<"P", "y", "t", "h", "o", "n", " ", "B", "o", "i", "l", "e", "r", "p", "l", "a",
      "t", "e", " ">>
README_LICENSE ==
    <<"*", " ", "L", "i", "c", "e", "n", "s", "e", ":", " ">>

NOT_OPEN_SOURCE == "Not open source"
LicenseChoices == {"MIT", "BSD-3-Clause", "ISC", "Apache-2.0", "GPL-3.0-only", NOT_OPEN_SOURCE}

LicenseText(license) ==
    CASE license = "MIT" -> LICENSE_MIT
      [] license = "BSD-3-Clause" -> LICENSE_BSD
      [] license = "ISC" -> LICENSE_ISC
      [] license = "Apache-2.0" -> LICENSE_APACHE
      [] license = "GPL-3.0-only" -> LICENSE_GPL

PyprojectText(context) ==
    PYPROJECT_HEAD
    \o (IF context.open_source_license # NOT_OPEN_SOURCE
        THEN PYPROJECT_LICENSE_KEY \o Chars(context.open_source_license)
        ELSE <<>>)
    \o PYPROJECT_TAIL

ReadmeText(context) ==
    README_HEAD
    \o (IF context.open_source_license # NOT_OPEN_SOURCE
        THEN README_LICENSE \o Chars(context.open_source_license)
        ELSE <<>>)

\* cookies.bake(extra_context=...): the materialized project, or a render
\* failure for a value that is none of the variable's choices
Bake(context) ==
    IF context.open_source_license \notin LicenseChoices
    THEN [baked |-> TRUE, exit_code |-> 1, exception |-> "ValueError",
          names |-> {}, text |-> <<>>]
    ELSE LET names == {"pyproject.toml", "README.rst", ".flake8", ".pylintrc"}
                      \cup (IF context.open_source_license # NOT_OPEN_SOURCE
                            THEN {"LICENSE"} ELSE {})
                      \cup (IF context.create_author_file = "y"
                            THEN {"AUTHORS.rst"} ELSE {})
         IN  [baked |-> TRUE, exit_code |-> 0, exception |-> "none",
              names |-> names,
              text |-> [n \in names |->
                          CASE n = "LICENSE" -> LicenseText(context.open_source_license)
                            [] n = "pyproject.toml" -> PyprojectText(context)
                            [] n = "README.rst" -> ReadmeText(context)
                            [] OTHER -> <<>>]]

\* (result.project_path / name).read_text(); a missing file has no text
Readable(project, name) == name \in project.names
read_text(project, name) == project.text[name]

\* [f.name for f in result.project_path.glob("**/*") if f.is_file()]
found_toplevel_files(project) == project.names

\* the assertions of test_bake_selecting_license for one parameter
test_bake_selecting_license(info, project) ==
    LET license_str == info[1]
        target_string == info[2]
    IN  /\ Readable(project, "LICENSE")
        /\ Readable(project, _DEPENDENCY_FILE)
        /\ In(Chars(target_string), read_text(project, "LICENSE"))
        /\ In(Chars(license_str), read_text(project, _DEPENDENCY_FILE))

\* the assertions of test_bake_not_open_source
test_bake_not_open_source(project) ==
    /\ _DEPENDENCY_FILE \in found_toplevel_files(project)
    /\ "LICENSE" \notin found_toplevel_files(project)
    /\ Readable(project, "README.rst")
    /\ ~In(Chars("License"), read_text(project, "README.rst"))
    /\ ~In(Chars("license"), read_text(project, _DEPENDENCY_FILE))

bake ==
    /\ ~result.baked
    /\ result' = Bake(extra_context)
    /\ UNCHANGED <<extra_context, taskVars, helperVars>>

InitBake ==
    /\ tasks_file = "project"
    /\ cookiecutter = [use_pylint |-> "y", use_mypy |-> "y"]
    /\ fs = {} /\ locked = {} /\ has_missing_ok = TRUE
    /\ Idle /\ HelpersIdle
    /\ extra_context \in [open_source_license : LicenseChoices \cup {"WTFPL"},
                          create_author_file : UseChoices,
                          full_name : {"Audrey Roy Greenfeld", "name quote name", "O'connor"},
                          use_pylint : UseChoices, use_mypy : UseChoices]
    /\ result = [baked |-> FALSE]

NextBake == bake

SpecBake == InitBake /\ [][NextBake]_vars

\* ================================================================ claims
Failures == {"UnexpectedExit", "Exit", "PermissionError"}

IssuedBy(task) == {i \in 1..Len(issued) : issued[i].task = task}
IssuedAt(command) == {i \in 1..Len(issued) : issued[i].command = command}
Position(task) == {i \in 1..Len(ran) : ran[i] = task}
IsPrefix(a, b) == Len(a) <= Len(b) /\ SubSeq(b, 1, Len(a)) = a

\* C1: in the project's test task a non-zero pytest return code r ends the
\* task with Exit carrying r, and a zero return code ends it normally, for
\* every coverage and junit option.
C1_TestExitCarriesReturnCode ==
    \A i \in 1..Len(pytest_main) :
        LET r == pytest_main[i].return_code
        IN  /\ r # 0 => status = "Exit" /\ exit_code = r /\ "test" \notin Range(ran)
            /\ r = 0 => status = "done" /\ exit_code = 0 /\ ran = <<"test">>

C1_Witness ==
    /\ Len(pytest_main) = 1
    /\ pytest_main[1].return_code = MaxReturnCode
    /\ kwargs.coverage = StrCoverage("html") /\ kwargs.junit
    /\ status = "Exit"

\* C2: a command issued through _run that returns non-zero is the last
\* thing the run does: it is the last command issued, the run ends with
\* UnexpectedExit and that return code, no task completes afterwards, and
\* poetry publish / poetry build / isort are never issued after a failure.
C2_FailFast ==
    /\ [](\A i \in 1..Len(issued) :
            issued[i].rc # 0 =>
                /\ i = Len(issued)
                /\ status = "UnexpectedExit"
                /\ exit_code = issued[i].rc
                /\ issued[i].task \notin Range(ran)
                /\ invoked \notin Range(ran))
    /\ [](\A j \in IssuedAt(release_commands[1]) \cup IssuedAt(dist_commands[1])
                   \cup IssuedAt(format_commands(kwargs.check)[2]) :
            \A i \in 1..(j - 1) : issued[i].rc = 0)
    /\ [][(status \in Failures /\ runs' = runs)
            => (UNCHANGED <<issued, ran, calls, fs, opened, pytest_main, status>>)]_vars

C2_Witness ==
    /\ invoked = "release"
    /\ status = "UnexpectedExit"
    /\ issued # <<>>
    /\ issued[Len(issued)].command = dist_commands[1]
    /\ issued[Len(issued)].rc # 0
    /\ IssuedAt(release_commands[1]) = {}

\* C3: prerequisites complete before a task's body starts, in declaration
\* order: clean runs clean_build, clean_python, clean_tests, clean_docs in
\* that order; docs runs clean_docs before sphinx-apidoc; dist runs every
\* clean sub-task before poetry build; release issues poetry publish only
\* after every clean sub-task and poetry build have completed.
CleanSubTasks == <<"clean_build", "clean_python", "clean_tests", "clean_docs">>

InOrder(ts, upto) ==
    \E f \in [1..Len(ts) -> 1..upto] :
        /\ \A k \in 1..Len(ts) : ran[f[k]] = ts[k]
        /\ \A k \in 1..(Len(ts) - 1) : f[k] < f[k + 1]

C3_PrerequisitesFirst ==
    \* whatever has started, its declared prerequisites have all completed
    /\ \A i \in 1..Len(issued) :
          \A p \in Range(expand_calls(cookiecutter, Pre(cookiecutter, issued[i].task))) :
              /\ p \in Range(ran)
              /\ \A k \in IssuedBy(p) : k < i
    /\ \A n \in 1..Len(ran) :
          InOrder(Pre(cookiecutter, ran[n]), n - 1)
    \* clean
    /\ \A n \in Position("clean") : InOrder(CleanSubTasks, n - 1)
    /\ (invoked = "clean" /\ status = "done") => ran = CleanSubTasks \o <<"clean">>
    \* docs
    /\ \A j \in IssuedAt(docs_commands[1]) :
          /\ "clean_docs" \in Range(ran)
          /\ \A c \in Range(clean_docs_commands) :
                \E i \in IssuedAt(c) : i < j /\ issued[i].rc = 0
    \* dist
    /\ \A j \in IssuedAt(dist_commands[1]) :
          /\ Range(CleanSubTasks) \subseteq Range(ran)
          /\ \A c \in Range(clean_build_commands) \cup Range(clean_python_commands)
                      \cup Range(clean_docs_commands) :
                \E i \in IssuedAt(c) : i < j /\ issued[i].rc = 0
    \* release
    /\ \A j \in IssuedAt(release_commands[1]) :
          /\ Range(CleanSubTasks) \cup {"clean", "dist"} \subseteq Range(ran)
          /\ \E i \in IssuedAt(dist_commands[1]) : i < j /\ issued[i].rc = 0

C3_Witness ==
    /\ invoked = "release"
    /\ status = "done"
    /\ fs_before = ProjectTargets
    /\ IssuedAt(release_commands[1]) # {}
    /\ Len(ran) > 7

\* C6: format with check=True issues black --check and isort --check-only
\* --diff, with check=False neither command carries an option, and in both
\* modes black comes before isort, each over the source and tests dirs.
C6_FormatCheckOnly ==
    invoked = "format" =>
        /\ Len(issued) <= 2
        /\ \A i \in 1..Len(issued) :
              /\ issued[i].task = "format"
              /\ issued[i].command.prog = <<"black", "isort">>[i]
              /\ issued[i].command.paths = <<SOURCE_DIR, TEST_DIR>>
              /\ issued[i].command.opts =
                    (IF kwargs.check
                     THEN <<(<<"--check">>), (<<"--check-only", "--diff">>)>>[i]
                     ELSE <<>>)
        /\ status = "done" => Len(issued) = 2

C6_Witness ==
    /\ invoked = "format"
    /\ kwargs.check
    /\ status = "done"
    /\ Len(issued) = 2

\* C7: lint's prerequisites are lint_flake8 always, lint_pylint iff
\* use_pylint == 'y' and lint_mypy iff use_mypy == 'y', in that order, and a
\* disabled sub-task is neither defined nor referenced.
ExpectedLint ==
    <<"lint_flake8">>
    \o (IF cookiecutter.use_pylint = "y" THEN <<"lint_pylint">> ELSE <<>>)
    \o (IF cookiecutter.use_mypy = "y" THEN <<"lint_mypy">> ELSE <<>>)
    \o <<"lint">>

C7_LintComposition ==
    /\ invoked = "lint" => IsPrefix(ran, ExpectedLint)
    /\ (invoked = "lint" /\ status = "done") => ran = ExpectedLint
    /\ \A t \in {"lint_pylint", "lint_mypy"} :
          LET enabled == IF t = "lint_pylint" THEN cookiecutter.use_pylint = "y"
                         ELSE cookiecutter.use_mypy = "y"
          IN  /\ t \in Defined(cookiecutter) <=> enabled
              /\ t \in Range(Pre(cookiecutter, "lint")) <=> enabled
              /\ ~enabled => t \notin Range(ran) /\ IssuedBy(t) = {} /\ t \notin Range(calls)
    /\ "lint_flake8" \in Defined(cookiecutter)
    /\ Pre(cookiecutter, "lint")[1] = "lint_flake8"

C7_Witness ==
    /\ invoked = "lint"
    /\ status = "done"
    /\ cookiecutter.use_pylint = "n"
    /\ cookiecutter.use_mypy = "y"
    /\ ran = <<"lint_flake8", "lint_mypy", "lint">>

\* C8: pytest gets -n auto first, then --junitxml=<bin/report.xml> iff junit,
\* then --cov=<source dir> iff coverage is not None, then --cov-report=html
\* iff coverage is "html" or --cov-report=xml:<bin/coverage.xml> iff it is
\* "xml", and the tests directory last; the HTML report is opened iff
\* coverage is "html", whatever the return code.
JunitArg == Arg("--junitxml=", <<"ROOT", "bin", "report.xml">>)
CovArg == Arg("--cov=", <<"ROOT", "python_boilerplate">>)
HtmlArg == Arg("--cov-report=html", <<>>)
XmlArg == Arg("--cov-report=xml:", <<"ROOT", "bin", "coverage.xml">>)

At(args, a) == {k \in 1..Len(args) : args[k] = a}

C8_PytestArguments ==
    \A i \in 1..Len(pytest_main) :
        LET args == pytest_main[i].args
            cov == kwargs.coverage
            optional == {JunitArg, CovArg, HtmlArg, XmlArg}
        IN  /\ Len(args) >= 3
            /\ args[1] = Arg("-n", <<>>) /\ args[2] = Arg("auto", <<>>)
            /\ args[Len(args)] = Arg("", <<"ROOT", "tests">>)
            /\ \A k \in 3..(Len(args) - 1) : args[k] \in optional
            /\ \A a \in optional : Cardinality(At(args, a)) <= 1
            /\ At(args, JunitArg) # {} <=> kwargs.junit
            /\ At(args, CovArg) # {} <=> cov.kind # "None"
            /\ At(args, HtmlArg) # {} <=> (cov.kind = "str" /\ cov.value = "html")
            /\ At(args, XmlArg) # {} <=> (cov.kind = "str" /\ cov.value = "xml")
            /\ \A a \in At(args, JunitArg), b \in At(args, CovArg) : a < b
            /\ \A a \in At(args, JunitArg) \cup At(args, CovArg),
                  b \in At(args, HtmlArg) \cup At(args, XmlArg) : a < b
            /\ opened = (IF cov.kind = "str" /\ cov.value = "html"
                         THEN << <<"ROOT", "htmlcov", "index.html">> >> ELSE <<>>)

C8_Witness ==
    /\ Len(pytest_main) = 1
    /\ Len(pytest_main[1].args) = 6
    /\ pytest_main[1].return_code # 0
    /\ kwargs.coverage = StrCoverage("html")
    /\ opened # <<>>

\* C10: with every target removable, clean (of either tasks file) completes
\* without error from any subset of its targets present, leaves none of them,
\* and run again on the result succeeds and changes nothing; an absent
\* target never makes it fail, in both branches of _delete_file.
TargetsOf(file) == IF file = "project" THEN ProjectTargets ELSE TemplateTargets

C10_CleanIdempotent ==
    (runs > 0 /\ status # "running") =>
        /\ locked = {} => status = "done" /\ fs \cap TargetsOf(tasks_file) = {}
        /\ status \in Failures => locked \cap fs_before # {}
        /\ (status = "done" /\ fs_before \cap TargetsOf(tasks_file) = {}) => fs = fs_before
        /\ fs \subseteq fs_before

C10_Witness ==
    /\ runs = 2
    /\ status = "done"
    /\ tasks_file = "project"
    /\ ~has_missing_ok
    /\ fs = {} /\ fs_before = {}
    /\ Len(issued) = 11

\* C9: after run_inside_dir or check_output_inside_dir finishes, normally or
\* with CalledProcessError, the working directory is the one before the
\* call; every command ran with the working directory set to the given
\* path; run_inside_dir runs the commands in list order and none after the
\* first that fails.
C9_WorkingDirectoryRestored ==
    helper.calls > 0 =>
        /\ cwd = outer_cwd
        /\ \A i \in 1..Len(executed) :
              /\ executed[i].cwd = helper.path
              /\ executed[i].argv = shlex_split(helper.commands[i])
              /\ executed[i].rc # 0 => i = Len(executed)
        /\ Len(executed) <= Len(helper.commands)
        /\ raised = "CalledProcessError"
              <=> (executed # <<>> /\ executed[Len(executed)].rc # 0)
        /\ raised = "none" =>
              Len(executed) = Len(helper.commands) /\ helper.path \in Directories
        /\ raised = "FileNotFoundError" => executed = <<>> /\ helper.path \notin Directories

C9_Witness ==
    /\ helper.name = "run_inside_dir"
    /\ helper.path = PROJECT_PATH
    /\ outer_cwd = HOME_DIR
    /\ raised = "CalledProcessError"
    /\ Len(helper.commands) = 2
    /\ Len(executed) = 1
    /\ cwd = HOME_DIR

\* C4: for each of MIT, BSD-3-Clause, ISC, Apache-2.0 and GPL-3.0-only, the
\* project baked with that license has a LICENSE containing the license's
\* fingerprint and a pyproject.toml containing the identifier.
SupportedLicenses == {"MIT", "BSD-3-Clause", "ISC", "Apache-2.0", "GPL-3.0-only"}

====
